---- MODULE Spec2Model ----
(* The Ledyard Bridge monitor of ledyard.c: one mutex, two condition       *)
(* variables, and the car threads of one_vehicle() running arrive_bridge,  *)
(* on_bridge and exit_bridge against the global bridge state `ledyard'.    *)
EXTENDS Integers, FiniteSets

(* ------------------------------ constants ------------------------------ *)
MAX_CARS == 3
NO_DIRECTION == -1
TO_HANOVER == 0
TO_NORWICH == 1

\* largest total_cars of a simulation
NumCars == 5
\* largest total_cars of a simulation checked for liveness
LiveCars == 4
\* largest total_cars of a simulation whose primitives may fail
FailCars == 3
\* number of car threads of a simulation in which a finished car is followed
\* by a new car of its direction
StreamCars == 3

Cars == 1..NumCars
NoCar == 0
Directions == {TO_HANOVER, TO_NORWICH}

\* arrive_ret of a car whose arrive_bridge call has not returned yet
NOT_RETURNED == 1

VARIABLES
  dir,              \* ledyard.dir
  num_cars,         \* ledyard.num_cars
  wait_hanover,     \* ledyard.wait_hanover
  wait_norwich,     \* ledyard.wait_norwich
  lock,             \* ledyard.lock: NoCar when free, else the owning car
  want_to_hanover,  \* cars blocked in pthread_cond_wait on ledyard.want_to_hanover
  want_to_norwich,  \* cars blocked in pthread_cond_wait on ledyard.want_to_norwich
  pc,               \* the statement each car thread is at
  car_dir,          \* car->dir of each car thread
  num_sig_current,  \* exit_bridge local of each car
  num_sig_other,    \* exit_bridge local of each car
  i,                \* exit_bridge loop counter of each car
  arrive_ret,       \* value arrive_bridge returned to one_vehicle
  err,              \* last message the car wrote to stderr ("" if none)
  sent_current,     \* pthread_cond_signal(car->current) calls of the running exit_bridge
  sent_other,       \* pthread_cond_signal(car->other) calls of the running exit_bridge
  observed,         \* history: <<>>, or <<v, s>> since blocked car v was seen in state s
  ran               \* history: the cars that took a step since then

bridge == <<dir, num_cars, wait_hanover, wait_norwich>>
conds == <<want_to_hanover, want_to_norwich>>
locals == <<num_sig_current, num_sig_other, i>>
sent == <<sent_current, sent_other>>
prog == <<dir, num_cars, wait_hanover, wait_norwich, lock, want_to_hanover,
          want_to_norwich, pc, car_dir, num_sig_current, num_sig_other, i,
          arrive_ret, err, sent_current, sent_other>>
vars == <<prog, observed, ran>>

(* ------------------------------- helpers ------------------------------- *)
min(a, b) == IF a < b THEN a ELSE b

\* car->other_dir as set by initialize_car
OtherDirSame(d) == d
OtherDir(d) == IF d = TO_HANOVER THEN TO_NORWICH ELSE TO_HANOVER

\* *car->wait_dir and *car->wait_other_dir
WaitOf(d) == IF d = TO_HANOVER THEN wait_hanover ELSE wait_norwich
WaitDir(c) == WaitOf(car_dir[c])
WaitOtherDir(c) == WaitOf(OtherDir(car_dir[c]))

SetWaitSwapped(d, v) ==
  IF d = TO_HANOVER
    THEN wait_norwich' = v /\ UNCHANGED wait_hanover
    ELSE wait_hanover' = v /\ UNCHANGED wait_norwich
SetWait(d, v) ==
  IF d = TO_HANOVER
    THEN wait_hanover' = v /\ UNCHANGED wait_norwich
    ELSE wait_norwich' = v /\ UNCHANGED wait_hanover

\* the threads blocked on *car->current / *car->other
CondOf(d) == IF d = TO_HANOVER THEN want_to_hanover ELSE want_to_norwich

\* pthread_mutex_lock succeeds only when no thread owns the mutex
MutexNeverBusy == TRUE
MutexAvailable == lock = NoCar

\* history of a step of car c: while a blocked car is observed, note that c
\* ran; the observation ends when the observed car is no longer blocked
Observe(c) ==
  IF observed = <<>>
    THEN UNCHANGED <<observed, ran>>
    ELSE IF pc'[observed[1]] # "a_blocked"
           THEN observed' = <<>> /\ ran' = {}
           ELSE ran' = ran \cup {c} /\ UNCHANGED observed

Goto(c, label) == pc' = [pc EXCEPT ![c] = label] /\ Observe(c)

(* ---------------------------- initial state ---------------------------- *)
\* initialize_bridge, then simulation(total_cars, car_dirs) with total_cars = n
\* creates n car threads, each with a direction of 0 or 1.  The threads are
\* alike but for their direction and run in any order, so that only the
\* number of cars of each direction matters: the cars to Hanover come first.
InitWith(n) ==
  /\ dir = NO_DIRECTION
  /\ num_cars = 0
  /\ wait_hanover = 0
  /\ wait_norwich = 0
  /\ lock = NoCar
  /\ want_to_hanover = {}
  /\ want_to_norwich = {}
  /\ pc = [c \in Cars |-> IF c <= n THEN "arrive" ELSE "not_created"]
  /\ car_dir \in [Cars -> Directions]
  /\ \A c \in Cars : c > n => car_dir[c] = TO_HANOVER
  /\ \A c, d \in 1..n : c <= d => car_dir[c] <= car_dir[d]
  /\ num_sig_current = [c \in Cars |-> 0]
  /\ num_sig_other = [c \in Cars |-> 0]
  /\ i = [c \in Cars |-> 0]
  /\ arrive_ret = [c \in Cars |-> NOT_RETURNED]
  /\ err = [c \in Cars |-> ""]
  /\ sent_current = [c \in Cars |-> 0]
  /\ sent_other = [c \in Cars |-> 0]
  /\ observed = <<>>
  /\ ran = {}

Init == \E n \in 1..NumCars : InitWith(n)

(* ----------------------------- arrive_bridge ---------------------------- *)
\* line 198: pthread_mutex_lock
ArriveLock(c) ==
  /\ pc[c] = "arrive"
  /\ MutexAvailable
  /\ lock' = c
  /\ Goto(c, "a_inc")
  /\ UNCHANGED <<bridge, conds, car_dir, locals, arrive_ret, err, sent>>

\* line 203: (*car->wait_dir)++
ArriveIncForgotten(c) ==
  /\ pc[c] = "a_inc"
  /\ Goto(c, "a_while")
  /\ UNCHANGED <<bridge, lock, conds, car_dir, locals, arrive_ret, err, sent>>
ArriveInc(c) ==
  /\ pc[c] = "a_inc"
  /\ SetWait(car_dir[c], WaitDir(c) + 1)
  /\ Goto(c, "a_while")
  /\ UNCHANGED <<dir, num_cars, lock, conds, car_dir, locals, arrive_ret, err, sent>>

\* line 207: the condition of the wait loop
WaitPredicateNoCapacity(c) == dir = OtherDir(car_dir[c])
WaitPredicateNotMine(c) == dir # car_dir[c] \/ num_cars >= MAX_CARS
WaitPredicateYield(c) ==
  dir = OtherDir(car_dir[c]) \/ num_cars >= MAX_CARS \/ WaitOtherDir(c) > 0
WaitPredicateEarly(c) ==
  dir = OtherDir(car_dir[c]) \/ num_cars >= MAX_CARS - 1
WaitPredicateNoDirection(c) == num_cars >= MAX_CARS
WaitPredicate(c) ==
  dir = OtherDir(car_dir[c]) \/ num_cars >= MAX_CARS

\* lines 207-208: test the loop condition, for the first time ("a_while") or
\* after pthread_cond_wait has returned ("a_rewhile"); when it is true
\* pthread_cond_wait releases the mutex and blocks the thread on car->current
ArriveWhile(c) ==
  /\ pc[c] \in {"a_while", "a_rewhile"}
  /\ IF WaitPredicate(c)
       THEN /\ lock' = NoCar
            /\ IF car_dir[c] = TO_HANOVER
                 THEN /\ want_to_hanover' = want_to_hanover \cup {c}
                      /\ UNCHANGED want_to_norwich
                 ELSE /\ want_to_norwich' = want_to_norwich \cup {c}
                      /\ UNCHANGED want_to_hanover
            /\ Goto(c, "a_blocked")
       ELSE /\ Goto(c, "a_checks")
            /\ UNCHANGED <<lock, conds>>
  /\ UNCHANGED <<bridge, car_dir, locals, arrive_ret, err, sent>>

\* pthread_cond_wait may return without any signal (spurious wake-up)
SpuriousWake(c) ==
  /\ pc[c] = "a_blocked"
  /\ want_to_hanover' = want_to_hanover \ {c}
  /\ want_to_norwich' = want_to_norwich \ {c}
  /\ Goto(c, "a_woken")
  /\ UNCHANGED <<bridge, lock, car_dir, locals, arrive_ret, err, sent>>

\* line 208: pthread_cond_wait reacquires the mutex before it returns
ArriveReacquireNoRecheck(c) ==
  /\ pc[c] = "a_woken"
  /\ MutexAvailable
  /\ lock' = c
  /\ Goto(c, "a_checks")
  /\ UNCHANGED <<bridge, conds, car_dir, locals, arrive_ret, err, sent>>
ArriveReacquire(c) ==
  /\ pc[c] = "a_woken"
  /\ MutexAvailable
  /\ lock' = c
  /\ Goto(c, "a_rewhile")
  /\ UNCHANGED <<bridge, conds, car_dir, locals, arrive_ret, err, sent>>

\* an error return of arrive_bridge: the message goes to stderr, -1 is
\* returned with the mutex still owned; one_vehicle goes on to on_bridge
ArriveFail(c, msg) ==
  /\ err' = [err EXCEPT ![c] = msg]
  /\ arrive_ret' = [arrive_ret EXCEPT ![c] = -1]
  /\ Goto(c, "on_bridge")

\* lines 216-223: error checking before editing bridge state
ArriveChecks(c) ==
  /\ pc[c] = "a_checks"
  /\ IF dir = OtherDir(car_dir[c])
       THEN ArriveFail(c, "crash")
       ELSE IF num_cars >= MAX_CARS
              THEN ArriveFail(c, "collapse")
              ELSE Goto(c, "a_dir") /\ UNCHANGED <<arrive_ret, err>>
  /\ UNCHANGED <<bridge, lock, conds, car_dir, locals, sent>>

\* lines 226-235: take the direction of an empty bridge
ArriveDir(c) ==
  /\ pc[c] = "a_dir"
  /\ IF dir = NO_DIRECTION
       THEN IF num_cars # 0
              THEN ArriveFail(c, "invalid") /\ UNCHANGED dir
              ELSE /\ dir' = car_dir[c]
                   /\ Goto(c, "a_count")
                   /\ UNCHANGED <<arrive_ret, err>>
       ELSE /\ Goto(c, "a_count")
            /\ UNCHANGED <<dir, arrive_ret, err>>
  /\ UNCHANGED <<num_cars, wait_hanover, wait_norwich, lock, conds, car_dir,
                 locals, sent>>

\* lines 236-237: (*car->wait_dir)--; ledyard.num_cars++
ArriveCount(c) ==
  /\ pc[c] = "a_count"
  /\ SetWait(car_dir[c], WaitDir(c) - 1)
  /\ num_cars' = num_cars + 1
  /\ Goto(c, "a_unlock")
  /\ UNCHANGED <<dir, lock, conds, car_dir, locals, arrive_ret, err, sent>>

\* lines 241-246: pthread_mutex_unlock; return 0
ArriveUnlock(c) ==
  /\ pc[c] = "a_unlock"
  /\ lock' = NoCar
  /\ arrive_ret' = [arrive_ret EXCEPT ![c] = 0]
  /\ Goto(c, "on_bridge")
  /\ UNCHANGED <<bridge, conds, car_dir, locals, err, sent>>

(* ------------------------------- on_bridge ------------------------------ *)
\* line 260: pthread_mutex_lock
OnBridgeLock(c) ==
  /\ pc[c] = "on_bridge"
  /\ MutexAvailable
  /\ lock' = c
  /\ Goto(c, "o_print")
  /\ UNCHANGED <<bridge, conds, car_dir, locals, arrive_ret, err, sent>>

\* lines 265-268: print num_cars, str_dir, wait_hanover, wait_norwich
OnBridgePrintLeavesLobby(c) ==
  /\ pc[c] = "o_print"
  /\ SetWait(car_dir[c], WaitDir(c) - 1)
  /\ Goto(c, "o_unlock")
  /\ UNCHANGED <<dir, num_cars, lock, conds, car_dir, locals, arrive_ret, err, sent>>
OnBridgePrint(c) ==
  /\ pc[c] = "o_print"
  /\ Goto(c, "o_unlock")
  /\ UNCHANGED <<bridge, lock, conds, car_dir, locals, arrive_ret, err, sent>>

\* lines 270-275: pthread_mutex_unlock; return 0
OnBridgeUnlock(c) ==
  /\ pc[c] = "o_unlock"
  /\ lock' = NoCar
  /\ Goto(c, "exit")
  /\ UNCHANGED <<bridge, conds, car_dir, locals, arrive_ret, err, sent>>

(* ------------------------------ exit_bridge ----------------------------- *)
\* line 292: pthread_mutex_lock
ExitLock(c) ==
  /\ pc[c] = "exit"
  /\ MutexAvailable
  /\ lock' = c
  /\ Goto(c, "e_dec")
  /\ UNCHANGED <<bridge, conds, car_dir, locals, arrive_ret, err, sent>>

\* line 297: ledyard.num_cars--
ExitDecForgotten(c) ==
  /\ pc[c] = "e_dec"
  /\ Goto(c, "e_quota")
  /\ UNCHANGED <<bridge, lock, conds, car_dir, locals, arrive_ret, err, sent>>
ExitDec(c) ==
  /\ pc[c] = "e_dec"
  /\ num_cars' = num_cars - 1
  /\ Goto(c, "e_quota")
  /\ UNCHANGED <<dir, wait_hanover, wait_norwich, lock, conds, car_dir, locals,
                 arrive_ret, err, sent>>

\* line 302: min(MAX_CARS, *car->wait_other_dir)
NumSigOtherAll(c) == WaitOtherDir(c)
NumSigOtherNone(c) == 0
NumSigOther(c) == min(MAX_CARS, WaitOtherDir(c))

\* line 304: min(MAX_CARS - ledyard.num_cars, *car->wait_dir)
NumSigCurrentAll(c) == WaitDir(c)
NumSigCurrent(c) == min(MAX_CARS - num_cars, WaitDir(c))

\* line 299: the departure left the bridge empty
BridgeEmptyNever == FALSE
BridgeEmptyAlways == TRUE
BridgeEmpty == num_cars = 0

\* lines 299-304 and the i = 0 of line 308
ExitQuotaOtherFirst(c) ==
  /\ pc[c] = "e_quota"
  /\ IF BridgeEmpty
       THEN /\ dir' = NO_DIRECTION
            /\ num_sig_other' = [num_sig_other EXCEPT ![c] = NumSigOther(c)]
       ELSE UNCHANGED <<dir, num_sig_other>>
  /\ num_sig_current' = [num_sig_current EXCEPT ![c] = NumSigCurrent(c)]
  /\ i' = [i EXCEPT ![c] = 0]
  /\ Goto(c, "e_sig_other")
  /\ UNCHANGED <<num_cars, wait_hanover, wait_norwich, lock, conds, car_dir,
                 arrive_ret, err, sent>>
ExitQuota(c) ==
  /\ pc[c] = "e_quota"
  /\ IF BridgeEmpty
       THEN /\ dir' = NO_DIRECTION
            /\ num_sig_other' = [num_sig_other EXCEPT ![c] = NumSigOther(c)]
       ELSE UNCHANGED <<dir, num_sig_other>>
  /\ num_sig_current' = [num_sig_current EXCEPT ![c] = NumSigCurrent(c)]
  /\ i' = [i EXCEPT ![c] = 0]
  /\ Goto(c, "e_sig_current")
  /\ UNCHANGED <<num_cars, wait_hanover, wait_norwich, lock, conds, car_dir,
                 arrive_ret, err, sent>>

\* pthread_cond_signal on the condition of direction d by car c, which goes
\* on at `next': one thread blocked on the condition, if any, is unblocked
Signal(d, c, next) ==
  IF CondOf(d) = {}
    THEN Goto(c, next) /\ UNCHANGED conds
    ELSE \E w \in CondOf(d) :
           /\ want_to_hanover' = want_to_hanover \ {w}
           /\ want_to_norwich' = want_to_norwich \ {w}
           /\ pc' = [pc EXCEPT ![w] = "a_woken", ![c] = next]
           /\ Observe(c)

\* lines 308-313: one test of the first loop, and its body
ExitSignalCurrent(c) ==
  /\ pc[c] = "e_sig_current"
  /\ IF i[c] < num_sig_current[c]
       THEN /\ Signal(car_dir[c], c, "e_sig_current")
            /\ i' = [i EXCEPT ![c] = i[c] + 1]
            /\ sent_current' = [sent_current EXCEPT ![c] = sent_current[c] + 1]
       ELSE /\ i' = [i EXCEPT ![c] = 0]
            /\ Goto(c, "e_sig_other")
            /\ UNCHANGED <<conds, sent_current>>
  /\ UNCHANGED <<bridge, lock, car_dir, num_sig_current, num_sig_other,
                 arrive_ret, err, sent_other>>

\* lines 317-322: one test of the second loop, and its body
ExitSignalOther(c) ==
  /\ pc[c] = "e_sig_other"
  /\ IF i[c] < num_sig_other[c]
       THEN /\ Signal(OtherDir(car_dir[c]), c, "e_sig_other")
            /\ i' = [i EXCEPT ![c] = i[c] + 1]
            /\ sent_other' = [sent_other EXCEPT ![c] = sent_other[c] + 1]
       ELSE /\ Goto(c, "e_unlock")
            /\ UNCHANGED <<conds, i, sent_other>>
  /\ UNCHANGED <<bridge, lock, car_dir, num_sig_current, num_sig_other,
                 arrive_ret, err, sent_current>>

\* lines 326-331: pthread_mutex_unlock; return 0 (the locals die); line 373:
\* the thread ends
ExitUnlockLoop(c) ==
  /\ pc[c] = "e_unlock"
  /\ lock' = NoCar
  /\ num_sig_current' = [num_sig_current EXCEPT ![c] = 0]
  /\ num_sig_other' = [num_sig_other EXCEPT ![c] = 0]
  /\ i' = [i EXCEPT ![c] = 0]
  /\ sent_current' = [sent_current EXCEPT ![c] = 0]
  /\ sent_other' = [sent_other EXCEPT ![c] = 0]
  /\ Goto(c, "exit")
  /\ UNCHANGED <<bridge, conds, car_dir, arrive_ret, err>>
ExitUnlock(c) ==
  /\ pc[c] = "e_unlock"
  /\ lock' = NoCar
  /\ num_sig_current' = [num_sig_current EXCEPT ![c] = 0]
  /\ num_sig_other' = [num_sig_other EXCEPT ![c] = 0]
  /\ i' = [i EXCEPT ![c] = 0]
  /\ sent_current' = [sent_current EXCEPT ![c] = 0]
  /\ sent_other' = [sent_other EXCEPT ![c] = 0]
  /\ Goto(c, "done")
  /\ UNCHANGED <<bridge, conds, car_dir, arrive_ret, err>>

(* ----------------------------- specification ---------------------------- *)
\* one step of the thread of car c running one_vehicle
Vehicle(c) ==
  \/ ArriveLock(c) \/ ArriveInc(c) \/ ArriveWhile(c) \/ ArriveReacquire(c)
  \/ ArriveChecks(c) \/ ArriveDir(c) \/ ArriveCount(c) \/ ArriveUnlock(c)
  \/ OnBridgeLock(c) \/ OnBridgePrint(c) \/ OnBridgeUnlock(c)
  \/ ExitLock(c) \/ ExitDec(c) \/ ExitQuota(c) \/ ExitSignalCurrent(c)
  \/ ExitSignalOther(c) \/ ExitUnlock(c)

Next == \E c \in Cars : Vehicle(c) \/ SpuriousWake(c)

Spec == Init /\ [][Next]_vars

\* fair scheduling: a thread that can run eventually does, and a thread
\* waiting for the mutex eventually gets it; a spurious wake-up is never owed
MutexAcquire(c) ==
  ArriveLock(c) \/ ArriveReacquire(c) \/ OnBridgeLock(c) \/ ExitLock(c)

Fairness ==
  \A c \in Cars : WF_vars(Vehicle(c)) /\ SF_vars(MutexAcquire(c))

LiveInit == \E n \in 1..LiveCars : InitWith(n)

LiveSpec == LiveInit /\ [][Next]_vars /\ Fairness

(* -------------------------- primitive failures -------------------------- *)
\* lines 198-201, 260-263, 292-295: pthread_mutex_lock fails; the function
\* returns -1 without the mutex and one_vehicle goes on to its next call
LockFail(c) ==
  /\ pc[c] \in {"arrive", "on_bridge", "exit"}
  /\ err' = [err EXCEPT ![c] = "lock"]
  /\ IF pc[c] = "arrive"
       THEN arrive_ret' = [arrive_ret EXCEPT ![c] = -1] /\ Goto(c, "on_bridge")
       ELSE /\ UNCHANGED arrive_ret
            /\ Goto(c, IF pc[c] = "on_bridge" THEN "exit" ELSE "done")
  /\ UNCHANGED <<bridge, lock, conds, car_dir, locals, sent>>

\* lines 208-211: pthread_cond_wait fails; arrive_bridge returns -1 and the
\* mutex stays owned by the car
CondWaitFail(c) ==
  /\ pc[c] \in {"a_while", "a_rewhile"}
  /\ WaitPredicate(c)
  /\ ArriveFail(c, "cond_wait")
  /\ UNCHANGED <<bridge, lock, conds, car_dir, locals, sent>>

\* lines 309-312, 318-321: pthread_cond_signal fails; exit_bridge returns -1
\* and the mutex stays owned by the car
SignalFail(c) ==
  /\ \/ pc[c] = "e_sig_current" /\ i[c] < num_sig_current[c]
     \/ pc[c] = "e_sig_other" /\ i[c] < num_sig_other[c]
  /\ err' = [err EXCEPT ![c] = "signal"]
  /\ num_sig_current' = [num_sig_current EXCEPT ![c] = 0]
  /\ num_sig_other' = [num_sig_other EXCEPT ![c] = 0]
  /\ i' = [i EXCEPT ![c] = 0]
  /\ sent_current' = [sent_current EXCEPT ![c] = 0]
  /\ sent_other' = [sent_other EXCEPT ![c] = 0]
  /\ Goto(c, "done")
  /\ UNCHANGED <<bridge, lock, conds, car_dir, arrive_ret>>

\* lines 241-244, 270-273, 326-329: pthread_mutex_unlock fails; the function
\* returns -1 and the mutex stays owned by the car
UnlockFail(c) ==
  /\ pc[c] \in {"a_unlock", "o_unlock", "e_unlock"}
  /\ err' = [err EXCEPT ![c] = "unlock"]
  /\ IF pc[c] = "a_unlock"
       THEN arrive_ret' = [arrive_ret EXCEPT ![c] = -1] /\ Goto(c, "on_bridge")
       ELSE /\ UNCHANGED arrive_ret
            /\ Goto(c, IF pc[c] = "o_unlock" THEN "exit" ELSE "done")
  /\ num_sig_current' = [num_sig_current EXCEPT ![c] = 0]
  /\ num_sig_other' = [num_sig_other EXCEPT ![c] = 0]
  /\ i' = [i EXCEPT ![c] = 0]
  /\ sent_current' = [sent_current EXCEPT ![c] = 0]
  /\ sent_other' = [sent_other EXCEPT ![c] = 0]
  /\ UNCHANGED <<bridge, lock, conds, car_dir>>

PrimitiveFail(c) ==
  LockFail(c) \/ CondWaitFail(c) \/ SignalFail(c) \/ UnlockFail(c)

NextFail == \E c \in Cars : Vehicle(c) \/ SpuriousWake(c) \/ PrimitiveFail(c)

FailInit == \E n \in 1..FailCars : InitWith(n)

SpecFail == FailInit /\ [][NextFail]_vars

(* ------------------------- a stream of arrivals ------------------------- *)
\* a finished car thread is followed by a new car thread of the same
\* direction (lines 511-533 without the bound on total_cars)
Restart(c) ==
  /\ pc[c] = "done"
  /\ arrive_ret' = [arrive_ret EXCEPT ![c] = NOT_RETURNED]
  /\ err' = [err EXCEPT ![c] = ""]
  /\ Goto(c, "arrive")
  /\ UNCHANGED <<bridge, lock, conds, car_dir, locals, sent>>

\* history only: start to observe the blocked car v in the current state
StartObserving(v) ==
  /\ observed = <<>>
  /\ pc[v] = "a_blocked"
  /\ lock = NoCar
  /\ observed' = <<v, prog>>
  /\ ran' = {}
  /\ UNCHANGED prog

StreamNext ==
  \E c \in Cars :
    Vehicle(c) \/ SpuriousWake(c) \/ Restart(c) \/ StartObserving(c)

StreamInit == \E n \in 1..StreamCars : InitWith(n)

StreamSpec == StreamInit /\ [][StreamNext]_vars

(* -------------------------------- claims -------------------------------- *)
\* a car that arrive_bridge admitted and that has not started exit_bridge
OnBridge(c) ==
  /\ pc[c] \in {"on_bridge", "o_print", "o_unlock", "exit"}
  /\ arrive_ret[c] = 0

\* the mutex owner is between the lock and the unlock of arrive_bridge or
\* exit_bridge
InArriveOrExit(c) ==
  pc[c] \in {"a_inc", "a_while", "a_rewhile", "a_checks", "a_dir", "a_count", "a_unlock",
             "e_dec", "e_quota", "e_sig_current", "e_sig_other", "e_unlock"}

\* C1: in every reachable state 0 <= num_cars <= MAX_CARS.
C1_Capacity == 0 <= num_cars /\ num_cars <= MAX_CARS

\* the bridge is full and a car of the flowing direction is kept waiting
C1_Witness ==
  /\ num_cars = MAX_CARS
  /\ \E c \in Cars : pc[c] = "a_blocked" /\ car_dir[c] = dir

\* C2: cars of opposite directions are never on the bridge together, and
\* every car on the bridge has the direction of the bridge.
C2_MutualExclusion ==
  /\ \A c \in Cars : OnBridge(c) => car_dir[c] = dir
  /\ \A c, d \in Cars : OnBridge(c) /\ OnBridge(d) => car_dir[c] = car_dir[d]

\* two cars are on the bridge while a car of the other direction is blocked
C2_Witness ==
  \E c, d, w \in Cars :
    /\ c # d /\ OnBridge(c) /\ OnBridge(d)
    /\ pc[w] = "a_blocked" /\ car_dir[w] # car_dir[c]

\* C3: whenever the mutex is not owned by a car in the middle of
\* arrive_bridge or exit_bridge, num_cars = 0 exactly when dir = NO_DIRECTION.
C3_EmptyIffNoDirection ==
  (lock = NoCar \/ ~InArriveOrExit(lock))
    => (num_cars = 0 <=> dir = NO_DIRECTION)

\* the mutex is free and the bridge is empty again after a departure, with
\* a car still to be admitted
C3_Witness ==
  /\ lock = NoCar /\ num_cars = 0 /\ dir = NO_DIRECTION
  /\ \E c, w \in Cars : pc[c] = "done" /\ pc[w] = "a_woken"

InOnBridgeOrExit(c) ==
  pc[c] \in {"o_print", "o_unlock", "e_dec", "e_quota", "e_sig_current",
             "e_sig_other", "e_unlock"}

\* C5 as claimed: the waiters one exit_bridge call signals, on both
\* conditions together, fit on the bridge after the departure and are of one
\* direction.
C5_SignalledAllAdmissible ==
  \A c \in Cars :
    pc[c] = "e_unlock" =>
      /\ sent_current[c] + sent_other[c] <= MAX_CARS - num_cars
      /\ ~(sent_current[c] > 0 /\ sent_other[c] > 0)

\* C5 as amended: the waiters one exit_bridge call signals on one condition
\* fit on the bridge after the departure and are no more than the cars
\* waiting for that direction, and the other direction is signalled only by
\* the departure that empties the bridge.
C5_SignalledPerDirectionAdmissible ==
  \A c \in Cars :
    pc[c] = "e_unlock" =>
      /\ sent_current[c] <= MAX_CARS - num_cars
      /\ sent_current[c] <= WaitOf(car_dir[c])
      /\ sent_other[c] <= MAX_CARS - num_cars
      /\ sent_other[c] <= WaitOf(OtherDir(car_dir[c]))
      /\ sent_other[c] > 0 => num_cars = 0

\* a departure that has signalled both directions
C5_Witness ==
  \E c \in Cars :
    pc[c] = "e_unlock" /\ sent_current[c] > 0 /\ sent_other[c] > 0

\* C6: an exit_bridge call signals car->current exactly
\* min(MAX_CARS - num_cars, waiting same) times and car->other exactly
\* min(MAX_CARS, waiting opposite) times if it emptied the bridge, else 0
\* times (num_cars being the count after the decrement).
C6_SignalCounts ==
  \A c \in Cars :
    pc[c] = "e_unlock" =>
      /\ sent_current[c] =
           IF MAX_CARS - num_cars < WaitOf(car_dir[c])
             THEN MAX_CARS - num_cars
             ELSE WaitOf(car_dir[c])
      /\ sent_other[c] =
           IF num_cars > 0 THEN 0
           ELSE IF MAX_CARS < WaitOf(OtherDir(car_dir[c]))
                  THEN MAX_CARS
                  ELSE WaitOf(OtherDir(car_dir[c]))

\* a departure that left cars on the bridge has signalled its own direction
\* and not the waiting opposite direction
C6_Witness ==
  \E c \in Cars :
    /\ pc[c] = "e_unlock" /\ num_cars > 0
    /\ WaitOf(OtherDir(car_dir[c])) > 0
    /\ sent_current[c] > 0 /\ sent_other[c] = 0

\* C8: arrive_bridge never reaches its car crash, bridge collapsed or invalid
\* state branch.
C8_NoInvariantViolation ==
  \A c \in Cars : err[c] \notin {"crash", "collapse", "invalid"}

\* a woken car holds the mutex again and finds that it still has to wait
C8_Witness ==
  \E c \in Cars :
    /\ pc[c] = "a_rewhile"
    /\ (dir = OtherDir(car_dir[c]) \/ num_cars >= MAX_CARS)

\* C9 as claimed: a car whose arrive_bridge returned -1 goes on neither to
\* on_bridge nor to exit_bridge.
C9_FailedArrivalStops ==
  \A c \in Cars :
    arrive_ret[c] = -1 => pc[c] = "on_bridge"

\* C10: a car blocks on a condition only in the wait loop of arrive_bridge
\* and only when dir is the opposite direction or num_cars >= MAX_CARS; a car
\* that owns the mutex in on_bridge or exit_bridge can always take its next
\* step.
C10_SuspendOnlyInArriveLoop ==
  [][\A c \in Cars :
       /\ (pc[c] # "a_blocked" /\ pc'[c] = "a_blocked") =>
            /\ pc[c] \in {"a_while", "a_rewhile"}
            /\ (dir = OtherDir(car_dir[c]) \/ num_cars >= MAX_CARS)
       /\ (c \in want_to_hanover' \cup want_to_norwich') <=> pc'[c] = "a_blocked"
       /\ InOnBridgeOrExit(c)' => (ENABLED Vehicle(c))'
    ]_vars

\* a car is signalling in exit_bridge while cars are blocked on both
\* conditions
C10_Witness ==
  \E c \in Cars :
    /\ pc[c] \in {"e_sig_current", "e_sig_other"}
    /\ want_to_hanover # {} /\ want_to_norwich # {}

\* C7: a car that finds at the loop test of arrive_bridge the bridge flowing
\* its way below capacity is admitted at once, whatever the number of cars
\* waiting for the opposite direction: it passes the loop and the checks and
\* adds itself to num_cars without blocking.  (With a stream of such cars a
\* blocked car of the opposite direction starves: C7_Witness.)
C7_AdmittedAtOnce ==
  [][\A c \in Cars :
       (dir = car_dir[c] /\ 0 < num_cars /\ num_cars < MAX_CARS /\ pc'[c] # pc[c]) =>
         /\ pc[c] \in {"a_while", "a_rewhile"} => pc'[c] = "a_checks"
         /\ pc[c] = "a_checks" => pc'[c] = "a_dir"
         /\ pc[c] = "a_dir" => pc'[c] = "a_count"
         /\ pc[c] = "a_count" => pc'[c] = "a_unlock" /\ num_cars' = num_cars + 1
    ]_vars

\* a fair cycle that starves: the program is back in the state in which the
\* blocked car observed[1] was first observed, that car has been blocked all
\* the time, and every other car either took a step in between or was
\* blocked (or not created) all the time; a car of the opposite direction
\* was admitted in between while the observed car was waiting
C7_Witness ==
  /\ observed # <<>>
  /\ observed[2] = prog
  /\ \A c \in Cars : c \in ran \/ pc[c] \in {"a_blocked", "not_created"}
  /\ \E c \in ran : car_dir[c] # car_dir[observed[1]] /\ pc[c] = "exit"

\* the car threads created by simulation()
Created == {c \in Cars : pc[c] # "not_created"}

\* the car is counted in the waiting lobby of its direction: it has
\* incremented the counter (line 203) and not yet decremented it (line 236)
InLobby(c) ==
  pc[c] \in {"a_while", "a_rewhile", "a_blocked", "a_woken", "a_checks",
             "a_dir", "a_count"}

\* C11: when all the n cars of a simulation have one direction d and each of
\* them is either blocked on its condition or admitted and not yet departing,
\* then num_cars = min(n, MAX_CARS), dir = d and the waiting counter of d is
\* n - min(n, MAX_CARS).
C11_CapacityBoundedAdmission ==
  LET n == Cardinality(Created)
      admitted == IF n < MAX_CARS THEN n ELSE MAX_CARS
  IN  \A d \in Directions :
        ( /\ \A c \in Created : car_dir[c] = d
          /\ \A c \in Created : pc[c] = "a_blocked" \/ OnBridge(c) )
        => /\ num_cars = admitted
           /\ dir = d
           /\ WaitOf(d) = n - admitted
           /\ Cardinality({c \in Created : OnBridge(c)}) = admitted

\* five cars of one direction: three are on the bridge and two are blocked
C11_Witness ==
  /\ Cardinality(Created) = 5
  /\ \A c \in Created : car_dir[c] = TO_HANOVER
  /\ Cardinality({c \in Created : OnBridge(c)}) = 3
  /\ Cardinality({c \in Created : pc[c] = "a_blocked"}) = 2

\* the car has entered the lobby and has not passed the loop of line 207
BeforeAdmission(c) == pc[c] \in {"a_while", "a_rewhile", "a_blocked", "a_woken"}

\* C12: a car that is in arrive_bridge while the bridge flows the other way
\* with num_cars > 0 stays before the end of the waiting loop, counted in the
\* waiting counter of its direction; it leaves the loop only when dir is not
\* the other direction; and when it is admitted while no other car is
\* arriving or crossing, the bridge is left with dir its direction and
\* num_cars = 1.
C12_SwitchThroughEmptyBridge ==
  [][\A c \in Cars :
       /\ ( /\ BeforeAdmission(c)
            /\ dir = OtherDir(car_dir[c])
            /\ num_cars > 0 )
          => /\ BeforeAdmission(c)'
             /\ WaitOf(car_dir[c])' >= 1
       /\ (BeforeAdmission(c) /\ pc'[c] = "a_checks")
          => /\ dir # OtherDir(car_dir[c])
             /\ (dir = NO_DIRECTION <=> num_cars = 0)
       /\ ( /\ pc[c] = "a_count"
            /\ pc'[c] = "a_unlock"
            /\ \A o \in Created \ {c} : pc[o] = "done" )
          => /\ dir' = car_dir[c]
             /\ num_cars' = 1
    ]_vars

\* a car to Norwich is blocked, counted in wait_norwich, while two cars to
\* Hanover are on the bridge
C12_Witness ==
  \E c \in Cars :
    /\ car_dir[c] = TO_NORWICH
    /\ pc[c] = "a_blocked"
    /\ c \in want_to_norwich
    /\ dir = TO_HANOVER
    /\ num_cars = 2
    /\ wait_norwich = 1

\* the position of a car in the sequence of calls of one_vehicle
Phase(label) ==
  CASE label = "not_created" -> 0
    [] label = "arrive" -> 1
    [] label \in {"a_inc", "a_while", "a_rewhile", "a_blocked", "a_woken",
                  "a_checks", "a_dir", "a_count", "a_unlock"} -> 2
    [] label = "on_bridge" -> 3
    [] label \in {"o_print", "o_unlock"} -> 4
    [] label = "exit" -> 5
    [] label \in {"e_dec", "e_quota", "e_sig_current", "e_sig_other",
                  "e_unlock"} -> 6
    [] label = "done" -> 7

\* C13: every car goes once through arrive_bridge, then on_bridge, then
\* exit_bridge, in this order: a step keeps a car in its call or moves it to
\* the next one, never back; a car past arrive_bridge has its return value.
C13_ProtocolOnceInOrder ==
  [][\A c \in Cars :
       /\ Phase(pc'[c]) >= Phase(pc[c])
       /\ Phase(pc'[c]) <= Phase(pc[c]) + 1
       /\ Phase(pc'[c]) >= 3 => arrive_ret'[c] # NOT_RETURNED
       /\ Phase(pc[c]) >= 3 => arrive_ret'[c] = arrive_ret[c]
    ]_vars

\* one car has finished the three calls while another one is inside
\* exit_bridge and a third one still inside arrive_bridge
C13_Witness ==
  \E c, d, e \in Cars :
    /\ pc[c] = "done" /\ arrive_ret[c] = 0
    /\ Phase(pc[d]) = 6
    /\ Phase(pc[e]) = 2

\* C14: the two waiting counters are never negative.
C14_WaitingNonNegative == wait_hanover >= 0 /\ wait_norwich >= 0

\* a car has just left the lobby (line 236) and brought the counter of its
\* direction back to 0 while a car of the other direction is counted
C14_Witness ==
  \E c \in Cars :
    /\ pc[c] = "a_unlock"
    /\ WaitDir(c) = 0
    /\ WaitOtherDir(c) > 0

\* the states of the bridge between two calls: empty without a direction, or
\* 1..MAX_CARS cars flowing in one direction
Idle == dir = NO_DIRECTION /\ num_cars = 0
Flowing == dir \in Directions /\ num_cars \in 1..MAX_CARS

\* C15: num_cars changes only by +1 at the admission of arrive_bridge (with
\* dir the direction of the car) and by -1 at the start of exit_bridge, and
\* each of these calls does so; dir changes only from NO_DIRECTION to the
\* direction of a car being admitted into the empty bridge, or to
\* NO_DIRECTION in the exit_bridge that left num_cars = 0; whenever the mutex
\* is released the bridge is Idle or Flowing.
C15_FourTransitions ==
  [][ /\ num_cars' # num_cars
         => \/ \E c \in Cars : /\ pc[c] = "a_count" /\ pc'[c] = "a_unlock"
                               /\ num_cars' = num_cars + 1
                               /\ dir = car_dir[c]
                               /\ dir' = dir
            \/ \E c \in Cars : /\ pc[c] = "e_dec" /\ pc'[c] = "e_quota"
                               /\ num_cars' = num_cars - 1
                               /\ dir' = dir
      /\ dir' # dir
         => \/ \E c \in Cars : /\ pc[c] = "a_dir" /\ pc'[c] = "a_count"
                               /\ dir = NO_DIRECTION
                               /\ num_cars = 0
                               /\ dir' = car_dir[c]
            \/ \E c \in Cars : /\ pc[c] = "e_quota"
                               /\ pc'[c] = "e_sig_current"
                               /\ num_cars = 0
                               /\ dir' = NO_DIRECTION
      /\ \A c \in Cars :
           /\ (pc[c] = "a_count" /\ pc'[c] # pc[c]) => num_cars' = num_cars + 1
           /\ (pc[c] = "e_dec" /\ pc'[c] # pc[c]) => num_cars' = num_cars - 1
      /\ lock' = NoCar => Idle' \/ Flowing'
    ]_vars

\* the last departure has just taken the bridge from one car flowing to
\* Idle while a car of the other direction waits
C15_Witness ==
  \E c \in Cars :
    /\ pc[c] = "e_sig_current"
    /\ Idle
    /\ WaitOtherDir(c) > 0
    /\ \E o \in Cars : pc[o] = "done"

\* C16: a car woken from pthread_cond_wait first reacquires the mutex and
\* evaluates the loop condition again, changing nothing of the bridge; if the
\* condition (dir is the other direction or num_cars >= MAX_CARS) is true it
\* waits again on the condition of its own direction, releasing the mutex,
\* with no error and with dir, num_cars and both waiting counters unchanged,
\* still counted in the waiting counter of its direction.
C16_MesaRecheck ==
  [][\A c \in Cars :
       /\ (pc[c] = "a_woken" /\ pc'[c] # pc[c])
          => /\ pc'[c] = "a_rewhile"
             /\ lock' = c
             /\ UNCHANGED bridge
       /\ ( /\ pc[c] = "a_rewhile"
            /\ pc'[c] # pc[c]
            /\ (dir = OtherDir(car_dir[c]) \/ num_cars >= MAX_CARS) )
          => /\ pc'[c] = "a_blocked"
             /\ c \in CondOf(car_dir[c])'
             /\ c \notin CondOf(OtherDir(car_dir[c]))'
             /\ lock' = NoCar
             /\ err'[c] = ""
             /\ arrive_ret'[c] = NOT_RETURNED
             /\ UNCHANGED bridge
             /\ WaitOf(car_dir[c]) >= 1
    ]_vars

\* a woken car lost the race for the free places: it holds the mutex again
\* and finds the bridge full of cars of its own direction
C16_Witness ==
  \E c \in Cars :
    /\ pc[c] = "a_rewhile"
    /\ lock = c
    /\ dir = car_dir[c]
    /\ num_cars >= MAX_CARS

\* C17: within one call of exit_bridge every signal on the condition of the
\* car's own direction is sent before any signal on the condition of the
\* other direction; every signal is sent by the owner of the mutex, which
\* keeps it, after num_cars-- and the reset of dir (dir is NO_DIRECTION
\* exactly when num_cars is 0), and does not change the bridge state.
C17_SignalOrderUnderLock ==
  [][\A c \in Cars :
       /\ sent_current'[c] > sent_current[c]
          => /\ sent_other[c] = 0
             /\ sent_other'[c] = 0
             /\ pc[c] = "e_sig_current"
       /\ sent_other'[c] > sent_other[c]
          => /\ sent_current[c] = num_sig_current[c]
             /\ sent_current'[c] = sent_current[c]
             /\ pc[c] = "e_sig_other"
       /\ (sent_current'[c] > sent_current[c] \/ sent_other'[c] > sent_other[c])
          => /\ lock = c
             /\ lock' = c
             /\ UNCHANGED bridge
             /\ (dir = NO_DIRECTION <=> num_cars = 0)
             /\ arrive_ret[c] = 0 => num_cars < MAX_CARS
    ]_vars

\* the second loop of exit_bridge is running after the first one has sent
\* its signals: signals of both kinds in one call
C17_Witness ==
  \E c \in Cars :
    /\ pc[c] = "e_sig_other"
    /\ lock = c
    /\ sent_current[c] > 0
    /\ sent_other[c] > 0
    /\ i[c] < num_sig_other[c]

\* the cars of direction d that have done the increment of line 203 and not
\* the decrement of line 236
Lobby(d) == {c \in Cars : car_dir[c] = d /\ InLobby(c)}

\* C18: whenever the mutex is free each waiting counter is the number of cars
\* of its direction that have entered arrive_bridge (counter incremented) and
\* are not yet admitted; a car inside arrive_bridge increments the counter of
\* its direction once, on entry, decrements it once, at admission, and never
\* changes the counter of the other direction.
C18_LobbyAccounting ==
  /\ [](lock = NoCar => /\ wait_hanover = Cardinality(Lobby(TO_HANOVER))
                        /\ wait_norwich = Cardinality(Lobby(TO_NORWICH)))
  /\ [][\A c \in Cars :
          (Phase(pc[c]) = 2 /\ pc'[c] # pc[c])
          => /\ WaitOtherDir(c)' = WaitOtherDir(c)
             /\ WaitDir(c)' = IF pc[c] = "a_inc" THEN WaitDir(c) + 1
                              ELSE IF pc[c] = "a_count" THEN WaitDir(c) - 1
                              ELSE WaitDir(c)
             /\ pc'[c] = "a_inc" => FALSE
             /\ pc'[c] = "a_count" => pc[c] = "a_dir"
       ]_vars

\* with the mutex free, cars of both directions are counted in the lobby,
\* one of them woken and not yet running again
C18_Witness ==
  /\ lock = NoCar
  /\ wait_hanover >= 1
  /\ wait_norwich >= 2
  /\ wait_norwich = Cardinality(Lobby(TO_NORWICH))
  /\ \E c \in Cars : pc[c] = "a_woken"

\* the positions between pthread_mutex_lock and pthread_mutex_unlock (or
\* pthread_cond_wait) of the three calls: all the lines that read or write
\* dir, num_cars, wait_hanover or wait_norwich are among them
LockHeld(c) ==
  pc[c] \in {"a_inc", "a_while", "a_rewhile", "a_checks", "a_dir", "a_count",
             "a_unlock", "o_print", "o_unlock", "e_dec", "e_quota",
             "e_sig_current", "e_sig_other", "e_unlock"}

\* C19: a car at a line that reads or writes the bridge state owns the mutex,
\* so at most one car is at such a line; a car blocked in pthread_cond_wait
\* (or woken and not yet running) does not own the mutex; the bridge state
\* is changed only by a step of the owner of the mutex.
C19_LockDiscipline ==
  /\ [](/\ \A c \in Cars : LockHeld(c) <=> lock = c
        /\ \A c \in Cars : pc[c] \in {"a_blocked", "a_woken"} => lock # c
        /\ Cardinality({c \in Cars : LockHeld(c)}) <= 1)
  /\ [][bridge' # bridge
        => /\ lock \in Cars
           /\ lock' = lock
           /\ LockHeld(lock)
           /\ pc'[lock] # pc[lock]
       ]_vars

\* a car prints the bridge state in on_bridge as owner of the mutex while
\* another one is blocked in pthread_cond_wait and a third one is about to
\* lock the mutex in exit_bridge
C19_Witness ==
  \E c, b, e \in Cars :
    /\ pc[c] = "o_print" /\ lock = c
    /\ pc[b] = "a_blocked"
    /\ pc[e] = "exit"

\* C20: every step of a car inside on_bridge, the failing lock and unlock
\* included, leaves dir, num_cars, wait_hanover and wait_norwich unchanged
\* and wakes no waiter (no signal: the wait sets of both conditions and the
\* signal counters keep their values).
C20_OnBridgeReadOnly ==
  [][\A c \in Cars :
       (Phase(pc[c]) \in {3, 4} /\ pc'[c] # pc[c])
       => /\ UNCHANGED bridge
          /\ UNCHANGED conds
          /\ UNCHANGED sent
          /\ \A o \in Cars \ {c} : pc'[o] = pc[o]
          /\ Phase(pc'[c]) \in {4, 5}
    ]_vars

\* one car has returned from on_bridge with success and another one with a
\* failure of its lock or unlock, both after a successful arrive_bridge,
\* while a car of the other direction is blocked
C20_Witness ==
  \E c, d, b \in Cars :
    /\ pc[c] = "exit" /\ arrive_ret[c] = 0 /\ err[c] = ""
    /\ pc[d] = "exit" /\ arrive_ret[d] = 0 /\ err[d] \in {"lock", "unlock"}
    /\ pc[b] = "a_blocked"
    /\ num_cars = 2

\* the car is between two calls of one_vehicle or at the end of its thread:
\* its last call of arrive_bridge, on_bridge or exit_bridge has returned
Returned(c) == pc[c] \in {"on_bridge", "exit", "done"}

\* C21: a car whose call has returned with the error of a failed
\* pthread_cond_wait, of a detected invariant violation or of a failed
\* pthread_cond_signal does not own the mutex.
C21_ErrorReturnsReleaseLock ==
  \A c \in Cars :
    ( /\ Returned(c)
      /\ err[c] \in {"cond_wait", "crash", "collapse", "invalid", "signal"} )
    => lock # c

\* every car thread of the simulation has ended: the pthread_join loop of
\* simulation() is over
AllJoined == \A c \in Created : pc[c] = "done"

\* the bridge as initialize_bridge leaves it
InitialBridge ==
  /\ dir = NO_DIRECTION
  /\ num_cars = 0
  /\ wait_hanover = 0
  /\ wait_norwich = 0

\* C22: when every car thread of the run has ended the bridge is in its
\* initial state (dir = NO_DIRECTION, num_cars = 0, both waiting counters
\* 0), so that the next run starts from it.
C22_JoinedBackToInitial == AllJoined => InitialBridge

\* the runs in which no call of a pthread primitive has failed do end with
\* the initial bridge, the mutex free and both wait sets empty
JoinedBackToInitialNoFailure ==
  (AllJoined /\ \A c \in Created : err[c] = "")
  => /\ InitialBridge
     /\ lock = NoCar
     /\ want_to_hanover = {}
     /\ want_to_norwich = {}

\* the car has done the num_cars++ of arrive_bridge (line 237) and not yet
\* the num_cars-- of exit_bridge (line 297)
Admitted(c) ==
  pc[c] \in {"a_unlock", "on_bridge", "o_print", "o_unlock", "exit", "e_dec"}

\* C23: in the runs without failing primitives num_cars is the number of
\* cars that arrive_bridge has admitted and exit_bridge has not yet taken
\* off the counter, in every state; with the mutex free these are the cars
\* whose arrive_bridge returned 0 and that are not yet inside exit_bridge.
C23_OccupantCounterFaithful ==
  /\ num_cars = Cardinality({c \in Cars : Admitted(c)})
  /\ lock = NoCar => num_cars = Cardinality({c \in Cars : OnBridge(c)})

\* with the mutex free three cars are counted on the bridge, after another
\* car has left it and while another one is blocked
C23_Witness ==
  /\ lock = NoCar
  /\ num_cars = 3
  /\ Cardinality({c \in Cars : OnBridge(c)}) = 3
  /\ \E c \in Cars : pc[c] = "done"
  /\ \E c \in Cars : pc[c] = "a_blocked"

====
